---- MODULE Spec2Model ----
(***************************************************************************)
(* The client-side persistent state layer of serial-sparkle-html:          *)
(*   - SerialStoreManager  (src/src/lib/serialStore.ts): read-modify-write *)
(*     over one IndexedDB record, with a subscriber set;                   *)
(*   - useSerialStore      (src/unnamed/part_000): the React hook that     *)
(*     subscribes to it and reloads on every notification;                 *)
(*   - GlobalStoreManager  (src/unnamed/part_013): the in-memory state     *)
(*     with setState / notifySubscribers / saveState.                      *)
(* Spec is the serial store, SpecGlobal the global store.                  *)
(***************************************************************************)
EXTENDS Integers, Sequences, FiniteSets, TLC

----------------------------------------------------------------------------
(* Bounds of the model *)

\* mutation calls issued by collaborators in one behaviour
MaxOps == 2
\* times the environment makes an observer raise or a store write fail
MaxFaults == 1

----------------------------------------------------------------------------
(* Values *)

\* an optional field that is not set (asn_id?: string left undefined)
Absent == "absent"
\* An optional object is a sequence of length 0 or 1:
\* store.get(key) that found nothing (request.result undefined), and a React
\* state that holds no store yet (useState<SerialStore | null>(null))
NoRecord == << >>
Null == << >>
Some(x) == << x >>

Statuses == {"unassigned", "blocked", "assigned"}

\* SerialInventory, reduced to the fields the store's operations read or write
Unit(id, pn, sn, st, asn, upd) ==
  [id |-> id, part_number_id |-> pn, serial_number |-> sn,
   status |-> st, asn_id |-> asn, updated_date |-> upd]

\* ASN, reduced to id, asn_number and status
Asn(id, num, st) == [id |-> id, asn_number |-> num, status |-> st]

\* Product, reduced to id and buyer_part_number
Product(id, bpn) == [id |-> id, buyer_part_number |-> bpn]

\* the five seed serials; updated_date 0 stands for the fixed 2024 dates
getDefaultSerials ==
  << Unit("1", "1", "CPU001X7001", "blocked", "1", 0),
     Unit("2", "1", "CPU001X7002", "assigned", "1", 0),
     Unit("3", "1", "CPU001X7003", "unassigned", Absent, 0),
     Unit("4", "1", "CPU001X7004", "unassigned", Absent, 0),
     Unit("5", "2", "MEM002DDR5001", "unassigned", Absent, 0) >>

\* the serial store's two seed ASNs
getDefaultASNs ==
  << Asn("1", "ASN-2024-001", "draft"), Asn("2", "ASN-2024-002", "submitted") >>

\* the serial store's three seed products
getDefaultProducts ==
  << Product("1", "CPU-001-X7"), Product("2", "MEM-002-DDR5"),
     Product("3", "SSD-003-NVMe") >>

\* SerialStore: { serials, asns, products, lastUpdated }
Store(ser, as, pr, t) ==
  [serials |-> ser, asns |-> as, products |-> pr, lastUpdated |-> t]

\* the defaultStore object built in getStore's no-record branch
DefaultStore(t) == Store(getDefaultSerials, getDefaultASNs, getDefaultProducts, t)

----------------------------------------------------------------------------
(* Sequence helpers: Array.prototype.findIndex; filter is SelectSeq *)

\* findIndex(s => s.id === id): the first index, 0 for JavaScript's -1
RECURSIVE FindIndexFrom(_, _, _)
FindIndexFrom(serials, id, i) ==
  IF i > Len(serials) THEN 0
  ELSE IF serials[i].id = id THEN i
  ELSE FindIndexFrom(serials, id, i + 1)

FindIndex(serials, id) == FindIndexFrom(serials, id, 1)

\* the set of ids of a sequence of records
IdsOf(seq) == { seq[i].id : i \in DOMAIN seq }

----------------------------------------------------------------------------
(* Collaborators *)

\* instances of the useSerialStore / useGlobalState hook
Hooks == {"h1"}
\* any other observer passed to subscribe(); its callback may raise
Plain == {"o1"}
Observers == Hooks \cup Plain
\* no observer
None == "none"

\* One mutation call with its arguments (type says which fields are used)
Op(type, units, unit, serialId, status, asnId) ==
  [type |-> type, units |-> units, unit |-> unit, serialId |-> serialId,
   status |-> status, asnId |-> asnId]

NoUnit == Unit("", "", "", "", "", 0)
NoOp == Op("none", << >>, NoUnit, "", "", "")
AddSerialsOp(units) == Op("addSerials", units, NoUnit, "", "", "")
UpdateSerialOp(unit) == Op("updateSerial", << >>, unit, "", "", "")
UpdateSerialStatusOp(id, st, asn) == Op("updateSerialStatus", << >>, NoUnit, id, st, asn)

\* ids the collaborators pass: "1" (blocked on ASN "1") and "3" (unassigned)
\* are seeded, "9" is in no store
SavedId == "1"
StatusId == "3"
UnknownId == "9"
\* the serial ticked in the grid view
SelectedId == "4"
\* asn ids the collaborators pass: "1" is seeded, "7" is no ASN of the store
AsnInputs == {"1", "7"}
\* statuses the collaborators pass
StatusInputs == {"unassigned", "blocked"}

----------------------------------------------------------------------------
(* State *)

VARIABLES
  \* the environment
  now,               \* the clock read by Date.now() and new Date()
  faults,            \* faults injected so far (observer raises, failed writes)
  storageAvailable,  \* whether indexedDB.open succeeds in this browser
  \* SerialStoreManager and its IndexedDB database
  db,                \* this.db: "null" or "open"
  subscribers,       \* this.subscribers, in insertion order
  disk,              \* the record under key 'data': NoRecord or Some(store)
  idb,               \* requests placed on transactions, in transaction order
  opening,           \* getStore calls suspended in "await this.init()"
  hook,              \* per useSerialStore instance: phase, store, loading
  \* the collaborators' mutation calls on the serial store
  nOps,              \* how many were issued
  issued,            \* call number -> the arguments of the call while it runs
  outcome,           \* call number -> none / pending / resolved / rejected / hung
  \* history of the serial store
  notified,          \* observer -> notifications received while subscribed
  notFoundReads,     \* reads that found no record
  lastWrite,         \* the latest setStore call whose put was stored: the store
                     \* it was given and the time of the call, or Null
  \* GlobalStoreManager and its IndexedDB database
  gdb,               \* this.db: "null" or "open"
  gsubscribers,      \* this.subscribers, in insertion order
  state,             \* this.state
  gdisk,             \* the record under key 'state': NoRecord or Some(state)
  gidb,              \* requests placed on transactions, in transaction order
  ginit,             \* where globalStore.init() is: opening / loading / ready /
                     \* failed (it rejected) / hung (it can no longer resolve)
  gpc,               \* where a running setState is: idle / saveState
  gview,             \* per useGlobalState instance: its React state
  gphase,            \* per observer: unmounted / mounted / gone (it has
                     \* unsubscribed) / gone again (it has called the function
                     \* a second time), or stuck (registered, and without the
                     \* function that removes it)
  \* the collaborators' mutation calls on the global store
  gOps,              \* how many were issued
  goutcome,          \* call number -> none / running / returned / threw
  gnotified,         \* observer -> notifications received while subscribed
  gcalls,            \* observer -> mutation calls made since it subscribed, or
                     \* since it unsubscribed
  \* AddSerialsForm, bulk generation
  form               \* the fields prefix, startNumber and endNumber as typed,
                     \* loading, the title of the last toast, and the
                     \* addSerials call handleBulkGenerate is awaiting

serialVars ==
  << db, subscribers, disk, idb, opening, hook, nOps, issued, outcome,
     notified, notFoundReads, lastWrite >>
globalVars ==
  << gdb, gsubscribers, state, gdisk, gidb, ginit, gpc, gview, gphase, gOps,
     goutcome, gnotified, gcalls >>
envVars == << now, faults, storageAvailable >>
formVars == << form >>

\* the phases of an observer that has unsubscribed
Gone == {"gone", "gone again"}

\* a request waiting on its transaction:
\*   kind "get" (store.get('data')) or "put" (store.put(data, 'data'));
\*   op   whose continuation runs on success: "loadStore" (a hook),
\*        "mutation" (call number caller) or "seed" (getStore's own setStore)
Request(kind, op, caller, h, data) ==
  [kind |-> kind, op |-> op, caller |-> caller, hook |-> h, data |-> data]

\* useSerialStore's React state
HookRec(phase, store, loading) == [phase |-> phase, store |-> store, loading |-> loading]

----------------------------------------------------------------------------
(* SerialStoreManager: pure parts *)

\* a setStore that puts its argument as it is, lastUpdated not refreshed
StampLastUpdatedStale(data, t) == data

\* setStore's argument to put: { ...data, lastUpdated: Date.now() }
StampLastUpdated(data, t) == [data EXCEPT !.lastUpdated = t]

\* the request setStore(data) places at time t:
\* store.put({ ...data, lastUpdated: Date.now() }, 'data'); the request
\* remembers the call it belongs to (arg, at)
setStore(op, caller, data, t) ==
  [kind |-> "put", op |-> op, caller |-> caller, hook |-> None,
   data |-> Some(StampLastUpdated(data, t)), arg |-> data, at |-> t]

\* addSerials: store.serials.push(...serials)
addSerials(store, serials) == [store EXCEPT !.serials = @ \o serials]

\* updateSerial: store.serials[index] = updatedSerial when index !== -1
updateSerial(store, updatedSerial) ==
  LET index == FindIndex(store.serials, updatedSerial.id)
  IN IF index # 0 THEN [store EXCEPT !.serials[index] = updatedSerial] ELSE store

\* updateSerialStatus: the first serial with that id gets status, asn_id and
\* updated_date assigned
updateSerialStatus(store, serialId, status, asnId, t) ==
  LET index == FindIndex(store.serials, serialId)
  IN IF index # 0
     THEN [store EXCEPT !.serials[index] =
             [@ EXCEPT !.status = status, !.asn_id = asnId, !.updated_date = t]]
     ELSE store

\* the store a mutation call hands to setStore
ApplyOp(store, op, t) ==
  CASE op.type = "addSerials" -> addSerials(store, op.units)
    [] op.type = "updateSerial" -> updateSerial(store, op.unit)
    [] op.type = "updateSerialStatus" ->
         updateSerialStatus(store, op.serialId, op.status, op.asnId, t)
    [] OTHER -> store

\* whether the mutation call reaches "await this.setStore(store)"
CallsSetStore(store, op) ==
  CASE op.type = "addSerials" -> TRUE
    [] op.type = "updateSerial" -> FindIndex(store.serials, op.unit.id) # 0
    [] op.type = "updateSerialStatus" -> FindIndex(store.serials, op.serialId) # 0
    [] OTHER -> FALSE

\* subscribers.forEach(callback => callback()): the callbacks run in insertion
\* order; the first that raises ends the pass
RECURSIVE Pass(_, _)
Pass(subs, raiser) ==
  IF subs = << >> THEN << >>
  ELSE IF Head(subs) = raiser THEN << Head(subs) >>
  ELSE << Head(subs) >> \o Pass(Tail(subs), raiser)

\* a delete over an array: splice(indexOf(o), 1), which takes the last entry
\* away when o is not there
SetDeleteSplice(subs, o) ==
  IF \E i \in DOMAIN subs : subs[i] = o
  THEN SelectSeq(subs, LAMBDA x : x # o)
  ELSE SubSeq(subs, 1, Len(subs) - 1)

\* Set.add / Set.delete on the subscriber set
SetAdd(subs, o) == IF \E i \in DOMAIN subs : subs[i] = o THEN subs ELSE Append(subs, o)
SetDelete(subs, o) == SelectSeq(subs, LAMBDA x : x # o)
InSeq(subs, o) == \E i \in DOMAIN subs : subs[i] = o

----------------------------------------------------------------------------
(* Queries: the same filters in SerialStoreManager (over the store getStore
   returned) and in GlobalStoreManager (over this.state) *)

\* serials.filter(s => s.status === status)
getSerialsByStatus(serials, status) ==
  SelectSeq(serials, LAMBDA s : s.status = status)

\* serials.filter(s => s.asn_id === asnId)
getSerialsByASN(serials, asnId) ==
  SelectSeq(serials, LAMBDA s : s.asn_id = asnId)

\* serials.filter(s => s.part_number_id === partNumberId)
getSerialsByPartNumber(serials, partNumberId) ==
  SelectSeq(serials, LAMBDA s : s.part_number_id = partNumberId)

\* counts that miss the blocked serials: the filter compares with 'block'
getSerialCountsTypo(serials) ==
  [total |-> Len(serials),
   unassigned |-> Len(SelectSeq(serials, LAMBDA s : s.status = "unassigned")),
   blocked |-> Len(SelectSeq(serials, LAMBDA s : s.status = "block")),
   assigned |-> Len(SelectSeq(serials, LAMBDA s : s.status = "assigned"))]

\* getSerialCounts: the length of serials and of its three filters
getSerialCounts(serials) ==
  [total |-> Len(serials),
   unassigned |-> Len(SelectSeq(serials, LAMBDA s : s.status = "unassigned")),
   blocked |-> Len(SelectSeq(serials, LAMBDA s : s.status = "blocked")),
   assigned |-> Len(SelectSeq(serials, LAMBDA s : s.status = "assigned"))]

----------------------------------------------------------------------------
(* Inputs of the serial store's collaborators *)

\* AddSerialsForm.handleSingleAdd / handleBulkGenerate: new units are
\* 'unassigned' and carry no asn_id
NewUnit(id, sn, t) == Unit(id, "1", sn, "unassigned", Absent, t)

\* `serial_${Date.now()}_${i}`, read at time t
SerialId(t, i) == "serial_" \o ToString(t) \o "_" \o ToString(i)

\* handleBulkGenerate for the range 1..2, run at time t
NewBatches(t) ==
  { << NewUnit(SerialId(t, 1), "SN1", t), NewUnit(SerialId(t, 2), "SN2", t) >> }

\* Date.now() counts milliseconds: a handler that runs while the clock goes
\* from t to t + 1 reads either, and so may read what the handler before read
BatchesDuring(t) == NewBatches(t) \cup NewBatches(t + 1)

\* the copy of a seeded serial a detail view holds
SeedUnit(id) == getDefaultSerials[FindIndex(getDefaultSerials, id)]

\* SerialDetail.handleSave: { ...serial, status: editForm.status,
\* updated_date: new Date() }, for a serial the store has or no longer has
SavedUnits(t) ==
  { [SeedUnit(id) EXCEPT !.status = st, !.updated_date = t] :
      id \in {SavedId}, st \in StatusInputs }
  \cup { Unit(UnknownId, "1", "SN9", "unassigned", Absent, t) }

----------------------------------------------------------------------------
(* SerialStoreManager: getStore, setStore and the three mutations *)

\* getStore up to its request: "if (!this.db) await this.init()", then the
\* readonly transaction and store.get('data')
GetStore(req) ==
  IF db = "null"
  THEN opening' = Append(opening, req) /\ idb' = idb
  ELSE idb' = Append(idb, req) /\ opening' = opening

\* mutation call c ends with result r (resolved / rejected), or is left
\* without a continuation (hung); its arguments go out of scope
Settled(c, r) ==
  /\ outcome' = [outcome EXCEPT ![c] = r]
  /\ issued' = [issued EXCEPT ![c] = NoOp]

\* no mutation call is waiting for its promise
NoCallPending == \A c \in 1..MaxOps : outcome[c] # "pending"

\* a collaborator calls one of addSerials / updateSerial / updateSerialStatus:
\* the call runs up to "await this.getStore()"; the hooks' reloads run beside
\* it. Time has passed since the call before.
IssueMutation(op) ==
  /\ nOps < MaxOps
  /\ nOps' = nOps + 1
  /\ issued' = [issued EXCEPT ![nOps + 1] = op]
  /\ outcome' = [outcome EXCEPT ![nOps + 1] = "pending"]
  /\ GetStore(Request("get", "mutation", nOps + 1, None, NoRecord))
  /\ UNCHANGED << db, subscribers, disk, hook, notified, notFoundReads,
                  lastWrite >>
  /\ now' = now + 1
  /\ UNCHANGED << faults, storageAvailable >>
  /\ UNCHANGED globalVars

\* the forms and popups await each call before they issue the next
\* (AddSerialsForm.tsx:90, SerialDetail.tsx:99, AssignSerialsPopup.tsx:114)
CallMutation(op) == NoCallPending /\ IssueMutation(op) /\ UNCHANGED formVars

AddSerials ==
  \E units \in BatchesDuring(now) : CallMutation(AddSerialsOp(units))

UpdateSerial ==
  \E unit \in SavedUnits(now) : CallMutation(UpdateSerialOp(unit))

UpdateSerialStatus ==
  \/ \E st \in StatusInputs, asn \in AsnInputs :
       CallMutation(UpdateSerialStatusOp(StatusId, st, asn))
  \/ CallMutation(UpdateSerialStatusOp(UnknownId, "blocked", "1"))

\* SerialGridView.handleSerialSelection, launched from an ASN: ticking a
\* serial runs "handleAssignSelected([serialId])" and does not wait for it, so
\* updateSerialStatus(serialId, 'blocked', asn.id) starts whether or not an
\* earlier call has completed
HandleSerialSelection ==
  /\ IssueMutation(UpdateSerialStatusOp(SelectedId, "blocked", "1"))
  /\ UNCHANGED formVars

----------------------------------------------------------------------------
(* AddSerialsForm: bulk generation. Texts are sequences of characters. *)

\* "Maximum 1000 serials can be generated at once"
MaxRange == 1000

NaN == << >>
DigitValue ==
  "0" :> 0 @@ "1" :> 1 @@ "2" :> 2 @@ "3" :> 3 @@ "4" :> 4 @@
  "5" :> 5 @@ "6" :> 6 @@ "7" :> 7 @@ "8" :> 8 @@ "9" :> 9

\* String.prototype.trim over blanks
RECURSIVE trim(_)
trim(text) ==
  IF text = << >> THEN text
  ELSE IF Head(text) = " " THEN trim(Tail(text))
  ELSE IF text[Len(text)] = " " THEN trim(SubSeq(text, 1, Len(text) - 1))
  ELSE text

\* the digits a text starts with
RECURSIVE LeadingDigits(_)
LeadingDigits(text) ==
  IF text = << >> \/ Head(text) \notin DOMAIN DigitValue THEN << >>
  ELSE << Head(text) >> \o LeadingDigits(Tail(text))

RECURSIVE DecimalValue(_)
DecimalValue(digits) ==
  IF digits = << >> THEN 0
  ELSE 10 * DecimalValue(SubSeq(digits, 1, Len(digits) - 1))
       + DigitValue[digits[Len(digits)]]

\* parseInt(text): leading blanks are skipped, then a sign, then the longest
\* run of digits; NaN when there is no digit, Some(n) otherwise
parseInt(text) ==
  LET s == trim(text)
      signed == s # << >> /\ Head(s) \in {"-", "+"}
      digits == LeadingDigits(IF signed THEN Tail(s) ELSE s)
  IN IF digits = << >> THEN NaN
     ELSE IF signed /\ Head(s) = "-" THEN Some(0 - DecimalValue(digits))
     ELSE Some(DecimalValue(digits))

\* str.padStart(targetLength, fill) for a fill of one character
RECURSIVE padStart(_, _, _)
padStart(str, targetLength, fill) ==
  IF Len(str) >= targetLength THEN str
  ELSE padStart(fill \o str, targetLength, fill)

\* the text as a string
RECURSIVE Join(_)
Join(text) == IF text = << >> THEN "" ELSE Head(text) \o Join(Tail(text))

\* a validation without the test of the range
validateNoRange(prefix, start, end) ==
  IF trim(prefix) = << >> \/ start = NaN \/ end = NaN \/ start[1] > end[1]
  THEN "Invalid input"
  ELSE "ok"

\* handleBulkGenerate's two tests: the title of the toast it shows before it
\* returns, or "ok"
validate(prefix, start, end) ==
  IF trim(prefix) = << >> \/ start = NaN \/ end = NaN \/ start[1] > end[1]
  THEN "Invalid input"
  ELSE IF end[1] - start[1] > MaxRange THEN "Range too large"
  ELSE "ok"

\* handleBulkGenerate's loop "for (let i = start; i <= end; i++)" at time t
BulkSerials(prefix, start, end, t) ==
  [k \in 1..(end - start + 1) |->
     NewUnit(SerialId(t, start + k - 1),
             Join(prefix) \o padStart(ToString(start + k - 1), 3, "0"), t)]

\* what the user types into the three fields; the number fields hold a valid
\* number or nothing
CPU001X7 == << "C", "P", "U", "0", "0", "1", "X", "7" >>
BulkInputs ==
  { << CPU001X7, << "1" >>, << "3" >> >>,
    << CPU001X7, << "-", "1" >>, << "1" >> >>,
    << CPU001X7, << "1" >>, << "1", "0", "0", "1" >> >>,
    << CPU001X7, << "1" >>, << "1", "0", "0", "2" >> >>,
    << CPU001X7, << "3" >>, << "1" >> >>,
    << CPU001X7, << ".", "5" >>, << "3" >> >>,
    << CPU001X7, << >>, << "3" >> >>,
    << << >>, << "1" >>, << "3" >> >>,
    << << " " >>, << "1" >>, << "3" >> >> }

FormRec(prefix, startNumber, endNumber, loading, toast, call) ==
  [prefix |-> prefix, startNumber |-> startNumber, endNumber |-> endNumber,
   loading |-> loading, toast |-> toast, call |-> call]

\* the user fills the three fields and presses "Generate". The button is
\* disabled while a field is empty or the form is loading; otherwise
\* handleBulkGenerate runs up to "await addSerials(serials)".
BulkGenerate(prefix, startNumber, endNumber) ==
  LET disabled == trim(prefix) = << >> \/ startNumber = << >> \/ endNumber = << >>
      start == parseInt(startNumber)
      end == parseInt(endNumber)
      verdict == validate(prefix, start, end)
  IN /\ ~form.loading
     /\ IF disabled \/ verdict # "ok"
        THEN /\ form' = FormRec(prefix, startNumber, endNumber, FALSE,
                                IF disabled THEN form.toast ELSE verdict, 0)
             /\ UNCHANGED serialVars
             /\ UNCHANGED envVars
             /\ UNCHANGED globalVars
        ELSE /\ form' = FormRec(prefix, startNumber, endNumber, TRUE,
                                form.toast, nOps + 1)
             /\ NoCallPending
             /\ IssueMutation(AddSerialsOp(BulkSerials(prefix, start[1], end[1], now)))

\* handleBulkGenerate after the await: the fields are cleared and "Serials
\* generated" is shown, or the catch shows "Error"; finally setLoading(false)
BulkGenerateSettled ==
  /\ form.loading
  /\ outcome[form.call] \in {"resolved", "rejected"}
  /\ form' = IF outcome[form.call] = "resolved"
             THEN FormRec(<< >>, << >>, << >>, FALSE, "Serials generated", 0)
             ELSE [form EXCEPT !.loading = FALSE, !.toast = "Error", !.call = 0]
  /\ UNCHANGED serialVars
  /\ UNCHANGED envVars
  /\ UNCHANGED globalVars

AddSerialsForm ==
  \/ \E typed \in BulkInputs : BulkGenerate(typed[1], typed[2], typed[3])
  \/ BulkGenerateSettled

\* a collaborator calls getSerialsByStatus / getSerialsByASN /
\* getSerialsByPartNumber / getSerialCounts: "const store = await
\* this.getStore()", then a filter over store.serials; one at a time
Query ==
  /\ \A i \in DOMAIN idb : idb[i].op # "query"
  /\ \A i \in DOMAIN opening : opening[i].op # "query"
  /\ GetStore(Request("get", "query", 0, None, NoRecord))
  /\ UNCHANGED << db, subscribers, disk, hook, nOps, issued, outcome, notified,
                  notFoundReads, lastWrite >>
  /\ UNCHANGED envVars
  /\ UNCHANGED globalVars
  /\ UNCHANGED formVars

\* init(): indexedDB.open succeeds, "this.db = request.result; resolve()", and
\* the suspended getStore goes on to place its request
OpenSuccess ==
  /\ opening # << >>
  /\ storageAvailable
  /\ db' = "open"
  /\ idb' = Append(idb, Head(opening))
  /\ opening' = Tail(opening)
  /\ UNCHANGED << subscribers, disk, hook, nOps, issued, outcome, notified,
                  notFoundReads, lastWrite >>
  /\ UNCHANGED envVars
  /\ UNCHANGED globalVars
  /\ UNCHANGED formVars

\* init(): request.onerror rejects; getStore rejects; a mutation call rejects
\* with it, loadStore catches it and clears loading
OpenError ==
  /\ opening # << >>
  /\ ~storageAvailable
  /\ LET req == Head(opening)
     IN /\ opening' = Tail(opening)
        /\ IF req.op = "mutation"
           THEN Settled(req.caller, "rejected")
           ELSE UNCHANGED << outcome, issued >>
        /\ hook' = IF req.op = "loadStore" /\ hook[req.hook].phase = "mounted"
                   THEN [hook EXCEPT ![req.hook].loading = FALSE]
                   ELSE hook
  /\ UNCHANGED << db, subscribers, disk, idb, nOps, notified, notFoundReads,
                  lastWrite >>
  /\ UNCHANGED envVars
  /\ UNCHANGED globalVars
  /\ UNCHANGED formVars

\* getStore's request.onsuccess and what its caller does with the store:
\*   no record -> defaultStore, "this.setStore(defaultStore)" (not awaited),
\*                resolve(defaultStore);
\*   loadStore -> setStore(storeData), setLoading(false) while mounted;
\*   mutation  -> modify the store and "await this.setStore(store)", or return
IdbGetSuccess ==
  /\ idb # << >>
  /\ Head(idb).kind = "get"
  /\ LET req == Head(idb)
         found == disk # NoRecord
         defaultStore == DefaultStore(now)
         store == IF found THEN disk[1] ELSE defaultStore
         seedPut == IF found THEN << >>
                    ELSE << setStore("seed", 0, defaultStore, now) >>
         op == IF req.op = "mutation" THEN issued[req.caller] ELSE NoOp
         writes == req.op = "mutation" /\ CallsSetStore(store, op)
         ownPut == IF writes
                   THEN << setStore("mutation", req.caller,
                                    ApplyOp(store, op, now), now) >>
                   ELSE << >>
     IN /\ idb' = Tail(idb) \o seedPut \o ownPut
        /\ notFoundReads' = IF found THEN notFoundReads ELSE notFoundReads + 1
        /\ hook' = IF req.op = "loadStore" /\ hook[req.hook].phase = "mounted"
                   THEN [hook EXCEPT ![req.hook].store = Some(store),
                                     ![req.hook].loading = FALSE]
                   ELSE hook
        /\ IF req.op = "mutation" /\ ~writes
           THEN Settled(req.caller, "resolved")
           ELSE UNCHANGED << outcome, issued >>
  /\ UNCHANGED << db, subscribers, disk, opening, nOps, notified, lastWrite >>
  /\ UNCHANGED envVars
  /\ UNCHANGED globalVars
  /\ UNCHANGED formVars

\* the requests the hooks among the invoked observers place: each callback is
\* "() => { loadStore(); }", which runs getStore up to store.get('data')
RECURSIVE Reloads(_)
Reloads(invoked) ==
  IF invoked = << >> THEN << >>
  ELSE (IF Head(invoked) \in Hooks
        THEN << Request("get", "loadStore", 0, Head(invoked), NoRecord) >>
        ELSE << >>) \o Reloads(Tail(invoked))

\* notified counts after a pass
CountPass(invoked) ==
  [o \in Observers |-> IF InSeq(invoked, o) THEN notified[o] + 1 ELSE notified[o]]

\* setStore's request.onsuccess: the record is stored, then
\* "this.notifySubscribers(); resolve()", and the awaiting mutation returns
IdbPutSuccess ==
  /\ idb # << >>
  /\ Head(idb).kind = "put"
  /\ LET req == Head(idb)
         invoked == Pass(subscribers, None)
     IN /\ disk' = req.data
        /\ lastWrite' = Some([store |-> req.arg, at |-> req.at])
        /\ idb' = Tail(idb) \o Reloads(invoked)
        /\ notified' = CountPass(invoked)
        /\ IF req.op = "mutation"
           THEN Settled(req.caller, "resolved")
           ELSE UNCHANGED << outcome, issued >>
  /\ UNCHANGED << db, subscribers, opening, hook, nOps, notFoundReads >>
  /\ UNCHANGED envVars
  /\ UNCHANGED globalVars
  /\ UNCHANGED formVars

\* setStore's request.onsuccess when the callback of observer raiser raises:
\* forEach stops there, resolve() is never reached, so the awaiting mutation
\* never settles. An exception leaving a success handler makes IndexedDB abort
\* the transaction; engines that do not are covered by committed = TRUE.
IdbPutSuccessObserverRaises ==
  /\ idb # << >>
  /\ Head(idb).kind = "put"
  /\ faults < MaxFaults
  /\ \E raiser \in Plain, committed \in BOOLEAN :
       LET req == Head(idb)
           invoked == Pass(subscribers, raiser)
       IN /\ InSeq(subscribers, raiser)
          /\ disk' = IF committed THEN req.data ELSE disk
          /\ lastWrite' = IF committed
                          THEN Some([store |-> req.arg, at |-> req.at])
                          ELSE lastWrite
          /\ idb' = Tail(idb) \o Reloads(invoked)
          /\ notified' = CountPass(invoked)
          /\ IF req.op = "mutation"
             THEN Settled(req.caller, "hung")
             ELSE UNCHANGED << outcome, issued >>
  /\ faults' = faults + 1
  /\ UNCHANGED << db, subscribers, opening, hook, nOps, notFoundReads >>
  /\ UNCHANGED << now, storageAvailable >>
  /\ UNCHANGED globalVars
  /\ UNCHANGED formVars

\* setStore's request.onerror: "reject(request.error)"; nothing is stored, no
\* observer is called, and the awaiting mutation rejects
IdbPutError ==
  /\ idb # << >>
  /\ Head(idb).kind = "put"
  /\ faults < MaxFaults
  /\ LET req == Head(idb)
     IN /\ idb' = Tail(idb)
        /\ IF req.op = "mutation"
           THEN Settled(req.caller, "rejected")
           ELSE UNCHANGED << outcome, issued >>
  /\ faults' = faults + 1
  /\ UNCHANGED << db, subscribers, disk, opening, hook, nOps, notified,
                  notFoundReads, lastWrite >>
  /\ UNCHANGED << now, storageAvailable >>
  /\ UNCHANGED globalVars
  /\ UNCHANGED formVars

----------------------------------------------------------------------------
(* Subscribers of the serial store *)

\* useSerialStore's effect: subscribe(() => loadStore()), then loadStore()
Mount ==
  \E h \in Hooks :
    /\ hook[h].phase = "unmounted"
    /\ hook' = [hook EXCEPT ![h].phase = "mounted"]
    /\ subscribers' = SetAdd(subscribers, h)
    /\ GetStore(Request("get", "loadStore", 0, h, NoRecord))
    /\ UNCHANGED << db, disk, nOps, issued, outcome, notified, notFoundReads,
                    lastWrite >>
    /\ UNCHANGED envVars
    /\ UNCHANGED globalVars
    /\ UNCHANGED formVars
  /\ UNCHANGED globalVars
  /\ UNCHANGED formVars

\* the effect's cleanup: mounted = false; unsubscribe(). The component's
\* React state goes with it.
Unmount ==
  \E h \in Hooks :
    /\ hook[h].phase = "mounted"
    /\ hook' = [hook EXCEPT ![h] = HookRec("gone", Null, TRUE)]
    /\ subscribers' = SetDelete(subscribers, h)
    /\ notified' = [notified EXCEPT ![h] = 0]
    /\ UNCHANGED << db, disk, idb, opening, nOps, issued, outcome, notFoundReads,
                    lastWrite >>
    /\ UNCHANGED envVars
    /\ UNCHANGED globalVars
    /\ UNCHANGED formVars
  /\ UNCHANGED globalVars
  /\ UNCHANGED formVars

\* subscribe(callback): this.subscribers.add(callback)
Subscribe ==
  \E o \in Plain :
    /\ ~InSeq(subscribers, o)
    /\ subscribers' = SetAdd(subscribers, o)
    /\ UNCHANGED << db, disk, idb, opening, hook, nOps, issued, outcome,
                    notified, notFoundReads, lastWrite >>
    /\ UNCHANGED envVars
    /\ UNCHANGED globalVars
    /\ UNCHANGED formVars
  /\ UNCHANGED globalVars
  /\ UNCHANGED formVars

\* the function subscribe returned: this.subscribers.delete(callback)
Unsubscribe ==
  \E o \in Plain :
    /\ subscribers' = SetDelete(subscribers, o)
    /\ subscribers' # subscribers
    /\ notified' = [notified EXCEPT ![o] = 0]
    /\ UNCHANGED << db, disk, idb, opening, hook, nOps, issued, outcome,
                    notFoundReads, lastWrite >>
    /\ UNCHANGED envVars
    /\ UNCHANGED globalVars
    /\ UNCHANGED formVars
  /\ UNCHANGED globalVars
  /\ UNCHANGED formVars

----------------------------------------------------------------------------
(* GlobalStoreManager: the state object *)

\* the global store's two seed ASNs and two seed products
gDefaultASNs == << Asn("1", "ASN001", "draft"), Asn("2", "ASN002", "submitted") >>
gDefaultProducts == << Product("1", "CPU001"), Product("2", "MEM002") >>

\* defaultState.ui
defaultUi ==
  [activeTab |-> "products",
   selectedSerial |-> Null, selectedASN |-> Null, selectedProduct |-> Null,
   searchTerms |-> [serials |-> "", asns |-> "", products |-> ""],
   filters |-> [serialStatus |-> "all", asnStatus |-> "all"],
   modals |-> [serialDetail |-> FALSE, asnDetail |-> FALSE, addSerial |-> FALSE,
               addASN |-> FALSE, assignSerials |-> FALSE,
               uploadChildSerials |-> FALSE, importSerials |-> FALSE]]

\* defaultState; lastUpdated 0 is the Date.now() of module load
defaultState ==
  [serials |-> << >>, asns |-> << >>, products |-> << >>, ui |-> defaultUi,
   system |-> [loading |-> FALSE, lastUpdated |-> 0, errors |-> << >>]]

\* { ...a, ...b }: the keys of b replace those of a
Spread(a, b) ==
  [k \in DOMAIN a \cup DOMAIN b |-> IF k \in DOMAIN b THEN b[k] ELSE a[k]]

\* the state setState assigns:
\* { ...state, ...updates,
\*   system: { ...state.system, ...updates.system, lastUpdated: Date.now() } }
MergeState(st, updates, t) ==
  LET sys == IF "system" \in DOMAIN updates
             THEN Spread(st.system, updates.system)
             ELSE st.system
  IN [Spread(st, updates) EXCEPT !.system = [sys EXCEPT !.lastUpdated = t]]

\* loadState with a stored record:
\* { ...defaultState, ...result,
\*   system: { ...defaultState.system, ...result.system, lastUpdated: Date.now() } }
LoadedState(result, t) ==
  [Spread(defaultState, result) EXCEPT
     !.system = [Spread(defaultState.system, result.system) EXCEPT !.lastUpdated = t]]

\* loadState without a record, and loadState's request.onerror:
\* { ...defaultState, serials: getDefaultSerials(), asns: ..., products: ... }
SeededState ==
  [defaultState EXCEPT !.serials = getDefaultSerials, !.asns = gDefaultASNs,
                       !.products = gDefaultProducts]

\* what an earlier session left under key 'state': the seeded state after the
\* user had opened the serials tab
EarlierState == [SeededState EXCEPT !.ui.activeTab = "serials"]

\* seq.map(x => x.id === item.id ? item : x)
ReplaceById(seq, item) ==
  [i \in DOMAIN seq |-> IF seq[i].id = item.id THEN item ELSE seq[i]]

----------------------------------------------------------------------------
(* GlobalStoreManager: the updater each action method passes to setState *)

\* an addSerials that drops the units whose serial number the state has
gAddSerialsDedup(st, serials) ==
  [serials |->
     st.serials \o SelectSeq(serials, LAMBDA u :
                     \A i \in DOMAIN st.serials :
                       st.serials[i].serial_number # u.serial_number)]

gAddSerials(st, serials) == [serials |-> st.serials \o serials]

gUpdateSerial(st, updatedSerial) ==
  [serials |-> ReplaceById(st.serials, updatedSerial)]

gDeleteSerial(st, serialId) ==
  [serials |-> SelectSeq(st.serials, LAMBDA serial : serial.id # serialId)]

\* an updateSerialStatus whose map forgets the test of the id
gUpdateSerialStatusAll(st, serialId, status, asnId, t) ==
  [serials |->
     [i \in DOMAIN st.serials |->
        [st.serials[i] EXCEPT !.status = status, !.asn_id = asnId,
                              !.updated_date = t]]]

gUpdateSerialStatus(st, serialId, status, asnId, t) ==
  [serials |->
     [i \in DOMAIN st.serials |->
        IF st.serials[i].id = serialId
        THEN [st.serials[i] EXCEPT !.status = status, !.asn_id = asnId,
                                   !.updated_date = t]
        ELSE st.serials[i]]]

gAddASN(st, asn) == [asns |-> Append(st.asns, asn)]

gUpdateASN(st, updatedASN) ==
  [asns |-> ReplaceById(st.asns, updatedASN)]

gDeleteASN(st, asnId) ==
  [asns |-> SelectSeq(st.asns, LAMBDA asn : asn.id # asnId)]

gAddProduct(st, product) == [products |-> Append(st.products, product)]

gUpdateProduct(st, updatedProduct) ==
  [products |-> ReplaceById(st.products, updatedProduct)]

gDeleteProduct(st, productId) ==
  [products |-> SelectSeq(st.products, LAMBDA product : product.id # productId)]

gSetActiveTab(st, tab) == [ui |-> [st.ui EXCEPT !.activeTab = tab]]

gSetSelectedSerial(st, serial) == [ui |-> [st.ui EXCEPT !.selectedSerial = serial]]

gSetSelectedASN(st, asn) == [ui |-> [st.ui EXCEPT !.selectedASN = asn]]

gSetSelectedProduct(st, product) == [ui |-> [st.ui EXCEPT !.selectedProduct = product]]

gSetSearchTerm(st, type, term) == [ui |-> [st.ui EXCEPT !.searchTerms[type] = term]]

gSetFilter(st, type, value) == [ui |-> [st.ui EXCEPT !.filters[type] = value]]

\* open !== undefined ? open : !state.ui.modals[modal]
gToggleModal(st, modal, open) ==
  [ui |-> [st.ui EXCEPT !.modals[modal] =
             IF open # Null THEN open[1] ELSE ~st.ui.modals[modal]]]

gSetLoading(st, loading) == [system |-> [st.system EXCEPT !.loading = loading]]

gAddError(st, error) == [system |-> [st.system EXCEPT !.errors = Append(@, error)]]

gClearErrors(st) == [system |-> [st.system EXCEPT !.errors = << >>]]

----------------------------------------------------------------------------
(* GlobalStoreManager: setState, saveState, init, loadState *)

\* the hooks' callback is React's setState: a hook a pass called holds the
\* state it was called with
ViewsAfter(invoked, st) ==
  [h \in Hooks |-> IF InSeq(invoked, h) THEN Some(st) ELSE gview[h]]

GCountPass(invoked) ==
  [o \in Observers |-> IF InSeq(invoked, o) THEN gnotified[o] + 1 ELSE gnotified[o]]

\* setState(updater) up to "this.notifySubscribers()": the state is replaced,
\* then the callbacks run; when one raises, the exception leaves setState and
\* "this.saveState()" is not reached. Time has passed since the call before.
SetState(updates) ==
  /\ gpc = "idle"
  /\ gOps < MaxOps
  /\ gOps' = gOps + 1
  /\ gcalls' = [o \in Observers |->
                  IF InSeq(gsubscribers, o) \/ gphase[o] \in Gone
                  THEN gcalls[o] + 1 ELSE gcalls[o]]
  /\ now' = now + 1
  /\ LET newState == MergeState(state, updates, now + 1)
     IN /\ state' = newState
        /\ \E raiser \in Plain \cup {None} :
             LET invoked == Pass(gsubscribers, raiser)
             IN /\ raiser # None => (faults < MaxFaults /\ InSeq(gsubscribers, raiser))
                /\ gnotified' = GCountPass(invoked)
                /\ gview' = ViewsAfter(invoked, newState)
                /\ IF raiser = None
                   THEN /\ gpc' = "saveState"
                        /\ goutcome' = [goutcome EXCEPT ![gOps + 1] = "running"]
                        /\ faults' = faults
                   ELSE /\ gpc' = "idle"
                        /\ goutcome' = [goutcome EXCEPT ![gOps + 1] = "threw"]
                        /\ faults' = faults + 1
  /\ UNCHANGED << gdb, gsubscribers, gdisk, gidb, ginit, gphase, storageAvailable >>
  /\ UNCHANGED serialVars
  /\ UNCHANGED formVars

\* saveState: "if (!this.db) return", else store.put(this.state, 'state') with
\* no handler on the request; setState returns
SaveState ==
  /\ gpc = "saveState"
  /\ gidb' = IF gdb = "open"
             THEN Append(gidb, Request("put", "saveState", gOps, None, Some(state)))
             ELSE gidb
  /\ gpc' = "idle"
  /\ goutcome' = [goutcome EXCEPT ![gOps] = "returned"]
  /\ UNCHANGED << gdb, gsubscribers, state, gdisk, ginit, gview, gphase, gOps,
                  gnotified, gcalls >>
  /\ UNCHANGED envVars
  /\ UNCHANGED serialVars
  /\ UNCHANGED formVars

\* init(): indexedDB.open succeeds, "this.db = request.result", and loadState
\* places store.get('state')
GlobalOpenSuccess ==
  /\ gpc = "idle"
  /\ ginit = "opening"
  /\ storageAvailable
  /\ gdb' = "open"
  /\ gidb' = Append(gidb, Request("get", "loadState", 0, None, NoRecord))
  /\ ginit' = "loading"
  /\ UNCHANGED << gsubscribers, state, gdisk, gpc, gview, gphase, gOps, goutcome,
                  gnotified, gcalls >>
  /\ UNCHANGED envVars
  /\ UNCHANGED serialVars
  /\ UNCHANGED formVars

\* init(): request.onerror rejects, and "globalStore.init().catch(console.error)"
\* logs it; this.db stays null
GlobalOpenError ==
  /\ gpc = "idle"
  /\ ginit = "opening"
  /\ ~storageAvailable
  /\ ginit' = "failed"
  /\ UNCHANGED << gdb, gsubscribers, state, gdisk, gidb, gpc, gview, gphase, gOps,
                  goutcome, gnotified, gcalls >>
  /\ UNCHANGED envVars
  /\ UNCHANGED serialVars
  /\ UNCHANGED formVars

\* the end of loadState's handlers: "this.notifySubscribers(); resolve()" with
\* the state st just assigned; a raising callback leaves resolve() unreached
LoadNotify(st, used) ==
  \E raiser \in Plain \cup {None} :
    LET invoked == Pass(gsubscribers, raiser)
    IN /\ raiser # None => (used < MaxFaults /\ InSeq(gsubscribers, raiser))
       /\ state' = st
       /\ gnotified' = GCountPass(invoked)
       /\ gview' = ViewsAfter(invoked, st)
       /\ ginit' = IF raiser = None THEN "ready" ELSE "hung"
       /\ faults' = IF raiser = None THEN used ELSE used + 1

\* loadState's request.onsuccess: the stored record, or the seed data when
\* there is none, becomes this.state
GlobalLoadSuccess ==
  /\ gpc = "idle"
  /\ gidb # << >>
  /\ Head(gidb).kind = "get"
  /\ gidb' = Tail(gidb)
  /\ LoadNotify(IF gdisk # NoRecord THEN LoadedState(gdisk[1], now) ELSE SeededState,
                faults)
  /\ UNCHANGED << gdb, gsubscribers, gdisk, gpc, gphase, gOps, goutcome, gcalls >>
  /\ UNCHANGED << now, storageAvailable >>
  /\ UNCHANGED serialVars
  /\ UNCHANGED formVars

\* loadState's request.onerror: the seed data becomes this.state
GlobalLoadError ==
  /\ gpc = "idle"
  /\ gidb # << >>
  /\ Head(gidb).kind = "get"
  /\ faults < MaxFaults
  /\ gidb' = Tail(gidb)
  /\ LoadNotify(SeededState, faults + 1)
  /\ UNCHANGED << gdb, gsubscribers, gdisk, gpc, gphase, gOps, goutcome, gcalls >>
  /\ UNCHANGED << now, storageAvailable >>
  /\ UNCHANGED serialVars
  /\ UNCHANGED formVars

\* a put of saveState completes: the record is replaced
GlobalPutSuccess ==
  /\ gpc = "idle"
  /\ gidb # << >>
  /\ Head(gidb).kind = "put"
  /\ gdisk' = Head(gidb).data
  /\ gidb' = Tail(gidb)
  /\ UNCHANGED << gdb, gsubscribers, state, ginit, gpc, gview, gphase, gOps,
                  goutcome, gnotified, gcalls >>
  /\ UNCHANGED envVars
  /\ UNCHANGED serialVars
  /\ UNCHANGED formVars

\* a put of saveState fails: the request has no onerror handler and setState
\* has long returned, so nothing in the manager learns of it
GlobalPutError ==
  /\ gpc = "idle"
  /\ gidb # << >>
  /\ Head(gidb).kind = "put"
  /\ faults < MaxFaults
  /\ gidb' = Tail(gidb)
  /\ faults' = faults + 1
  /\ UNCHANGED << gdb, gsubscribers, state, gdisk, ginit, gpc, gview, gphase, gOps,
                  goutcome, gnotified, gcalls >>
  /\ UNCHANGED << now, storageAvailable >>
  /\ UNCHANGED serialVars
  /\ UNCHANGED formVars

----------------------------------------------------------------------------
(* Subscribers of the global store *)

\* subscribe(callback): "this.subscribers.add(callback); callback(this.state)"
SubscribeTo(o) ==
  /\ gsubscribers' = SetAdd(gsubscribers, o)
  /\ gnotified' = [gnotified EXCEPT ![o] = @ + 1]
  /\ gview' = ViewsAfter(<< o >>, state)

\* useGlobalState: useState(globalStore.getState()), then the effect's
\* globalStore.subscribe(setState)
GlobalMount ==
  \E h \in Hooks :
    /\ gpc = "idle"
    /\ gphase[h] = "unmounted"
    /\ gphase' = [gphase EXCEPT ![h] = "mounted"]
    /\ SubscribeTo(h)
    /\ UNCHANGED << gdb, state, gdisk, gidb, ginit, gpc, gOps, goutcome, gcalls >>
    /\ UNCHANGED envVars
    /\ UNCHANGED serialVars
    /\ UNCHANGED formVars

\* the effect's cleanup calls the function subscribe returned; the component's
\* React state goes with it
GlobalUnmount ==
  \E h \in Hooks :
    /\ gpc = "idle"
    /\ gphase[h] = "mounted"
    /\ gphase' = [gphase EXCEPT ![h] = "gone"]
    /\ gsubscribers' = SetDelete(gsubscribers, h)
    /\ gnotified' = [gnotified EXCEPT ![h] = 0]
    /\ gcalls' = [gcalls EXCEPT ![h] = 0]
    /\ gview' = [gview EXCEPT ![h] = Null]
    /\ UNCHANGED << gdb, state, gdisk, gidb, ginit, gpc, gOps, goutcome >>
    /\ UNCHANGED envVars
    /\ UNCHANGED serialVars
    /\ UNCHANGED formVars

\* another observer subscribes; its callback returns from the replay
GlobalSubscribe ==
  \E o \in Plain :
    /\ gpc = "idle"
    /\ gphase[o] = "unmounted"
    /\ gphase' = [gphase EXCEPT ![o] = "mounted"]
    /\ SubscribeTo(o)
    /\ UNCHANGED << gdb, state, gdisk, gidb, ginit, gpc, gOps, goutcome, gcalls >>
    /\ UNCHANGED envVars
    /\ UNCHANGED serialVars
    /\ UNCHANGED formVars

\* another observer subscribes and its callback raises in the replay: it is
\* registered, but subscribe never returned the function that removes it
GlobalSubscribeRaises ==
  \E o \in Plain :
    /\ gpc = "idle"
    /\ gphase[o] = "unmounted"
    /\ faults < MaxFaults
    /\ gphase' = [gphase EXCEPT ![o] = "stuck"]
    /\ SubscribeTo(o)
    /\ faults' = faults + 1
    /\ UNCHANGED << gdb, state, gdisk, gidb, ginit, gpc, gOps, goutcome, gcalls >>
    /\ UNCHANGED << now, storageAvailable >>
    /\ UNCHANGED serialVars
    /\ UNCHANGED formVars

\* the function subscribe returned: this.subscribers.delete(callback)
GlobalUnsubscribe ==
  \E o \in Plain :
    /\ gpc = "idle"
    /\ gphase[o] = "mounted"
    /\ gphase' = [gphase EXCEPT ![o] = "gone"]
    /\ gsubscribers' = SetDelete(gsubscribers, o)
    /\ gnotified' = [gnotified EXCEPT ![o] = 0]
    /\ gcalls' = [gcalls EXCEPT ![o] = 0]
    /\ UNCHANGED << gdb, state, gdisk, gidb, ginit, gpc, gview, gOps, goutcome >>
    /\ UNCHANGED envVars
    /\ UNCHANGED serialVars
    /\ UNCHANGED formVars

\* the function subscribe returned is called a second time:
\* this.subscribers.delete(callback) once more
GlobalUnsubscribeAgain ==
  \E o \in Plain :
    /\ gpc = "idle"
    /\ gphase[o] = "gone"
    /\ gphase' = [gphase EXCEPT ![o] = "gone again"]
    /\ gsubscribers' = SetDelete(gsubscribers, o)
    /\ UNCHANGED << gdb, state, gdisk, gidb, ginit, gpc, gview, gOps, goutcome,
                    gnotified, gcalls >>
    /\ UNCHANGED envVars
    /\ UNCHANGED serialVars
    /\ UNCHANGED formVars

----------------------------------------------------------------------------
(* GlobalStoreManager: the action methods, with the collaborators' inputs *)

GlobalAddSerials ==
  \E units \in BatchesDuring(now) : SetState(gAddSerials(state, units))

GlobalUpdateSerial ==
  \E unit \in SavedUnits(now + 1) : SetState(gUpdateSerial(state, unit))

GlobalDeleteSerial ==
  \E id \in {StatusId} : SetState(gDeleteSerial(state, id))

GlobalUpdateSerialStatus ==
  \/ \E st \in StatusInputs, asn \in AsnInputs :
       SetState(gUpdateSerialStatus(state, StatusId, st, asn, now + 1))
  \/ SetState(gUpdateSerialStatus(state, UnknownId, "blocked", "1", now + 1))

GlobalAddASN == SetState(gAddASN(state, Asn("3", "ASN003", "draft")))

GlobalUpdateASN == SetState(gUpdateASN(state, Asn("2", "ASN002", "received")))

\* ASN "1" is the one the seeded serials "1" and "2" are on
GlobalDeleteASN ==
  \E id \in {"1"} : SetState(gDeleteASN(state, id))

GlobalAddProduct == SetState(gAddProduct(state, Product("4", "SSD004")))

GlobalUpdateProduct == SetState(gUpdateProduct(state, Product("1", "CPU001B")))

GlobalDeleteProduct ==
  \E id \in {"2"} : SetState(gDeleteProduct(state, id))

GlobalSetActiveTab ==
  \E tab \in {"serials"} : SetState(gSetActiveTab(state, tab))

GlobalSetSelectedSerial ==
  \E serial \in {Some(SeedUnit(SavedId))} : SetState(gSetSelectedSerial(state, serial))

GlobalSetSelectedASN ==
  \E asn \in {Some(gDefaultASNs[1])} : SetState(gSetSelectedASN(state, asn))

GlobalSetSelectedProduct ==
  \E product \in {Some(gDefaultProducts[1])} :
    SetState(gSetSelectedProduct(state, product))

GlobalSetSearchTerm ==
  \E type \in {"serials", "asns", "products"} :
    SetState(gSetSearchTerm(state, type, "cpu"))

GlobalSetFilter ==
  \/ SetState(gSetFilter(state, "serialStatus", "blocked"))
  \/ SetState(gSetFilter(state, "asnStatus", "draft"))

GlobalToggleModal ==
  \E modal \in {"addSerial"}, open \in {Null, Some(TRUE)} :
    SetState(gToggleModal(state, modal, open))

GlobalSetLoading ==
  \E loading \in {TRUE} : SetState(gSetLoading(state, loading))

GlobalAddError == SetState(gAddError(state, "e1"))

GlobalClearErrors == SetState(gClearErrors(state))

----------------------------------------------------------------------------
(* GlobalStoreManager: what it hands to its collaborators *)

\* how a collaborator comes to hold a value of the manager:
\*   getState  "return { ...this.state }": a new object whose properties are
\*             the manager's own arrays and objects
\*   callback  "callback(this.state)" in subscribe and notifySubscribers: the
\*             manager's state object itself
\*   query     "this.state.serials.filter(...)": a new array whose elements
\*             are the manager's own unit objects
Routes == {"getState", "callback", "query"}

\* what the collaborator then does to it in place:
\*   own   it assigns a property of the value it holds
\*         (x.serials = [], or result.length = 0 on a query result)
\*   unit  it assigns a property of a unit reached through the value
\*         (x.serials[0].status = 'blocked', or result[0].status = 'blocked')
Modifications == {"own", "unit"}

\* whether the object assigned to is one the manager's state refers to
SharedWithManager(route, m) == route = "callback" \/ m = "unit"

\* the unit the collaborator reaches: the first of the state's serials, or
\* the first of getSerialsByStatus('unassigned')
TargetIndex(st, route) ==
  IF route = "query"
  THEN CHOOSE i \in DOMAIN st.serials :
         /\ st.serials[i].status = "unassigned"
         /\ \A j \in 1..(i - 1) : st.serials[j].status # "unassigned"
  ELSE 1

\* this.state after the collaborator's assignment
AfterModification(st, route, m) ==
  IF ~SharedWithManager(route, m) THEN st
  ELSE IF m = "own" THEN [st EXCEPT !.serials = << >>]
  ELSE [st EXCEPT !.serials[TargetIndex(st, route)].status = "blocked"]

\* a collaborator modifies in place the value it was handed. setState is not
\* called: nobody is notified and nothing is saved. A hook whose React state
\* is the manager's state object holds the modified object too.
ModifyInPlace(route, m) ==
  /\ gpc = "idle"
  /\ m = "unit" =>
       IF route = "query"
       THEN getSerialsByStatus(state.serials, "unassigned") # << >>
       ELSE state.serials # << >>
  /\ state' = AfterModification(state, route, m)
  /\ gview' = [h \in Hooks |->
                 IF gview[h] = Some(state) THEN Some(state') ELSE gview[h]]
  /\ UNCHANGED << gdb, gsubscribers, gdisk, gidb, ginit, gpc, gphase, gOps,
                  goutcome, gnotified, gcalls >>
  /\ UNCHANGED envVars
  /\ UNCHANGED serialVars
  /\ UNCHANGED formVars

GlobalModifyInPlace == \E route \in Routes, m \in Modifications : ModifyInPlace(route, m)

----------------------------------------------------------------------------
(* The two stores as state machines *)

\* a browser that has never run the application: no database, no record, no
\* hook mounted yet
SerialInit ==
  /\ db = "null"
  /\ subscribers = << >>
  /\ disk = NoRecord
  /\ idb = << >>
  /\ opening = << >>
  /\ hook = [h \in Hooks |-> HookRec("unmounted", Null, TRUE)]
  /\ nOps = 0
  /\ issued = [c \in 1..MaxOps |-> NoOp]
  /\ outcome = [c \in 1..MaxOps |-> "none"]
  /\ notified = [o \in Observers |-> 0]
  /\ notFoundReads = 0
  /\ lastWrite = Null

\* the form as it is first rendered
FormInit == form = FormRec(<< >>, << >>, << >>, FALSE, "none", 0)

EnvInit ==
  /\ now = 0
  /\ faults = 0
  /\ storageAvailable \in BOOLEAN

\* the module has just been loaded: "globalStore.init()" has asked for the
\* database, this.state is defaultState; the browser has never run the
\* application, or an earlier session left its record
GlobalInit ==
  /\ gdb = "null"
  /\ gsubscribers = << >>
  /\ state = defaultState
  /\ gdisk \in {NoRecord, Some(EarlierState)}
  /\ gidb = << >>
  /\ ginit = "opening"
  /\ gpc = "idle"
  /\ gview = [h \in Hooks |-> Null]
  /\ gphase = [o \in Observers |-> "unmounted"]
  /\ gOps = 0
  /\ goutcome = [c \in 1..MaxOps |-> "none"]
  /\ gnotified = [o \in Observers |-> 0]
  /\ gcalls = [o \in Observers |-> 0]

\* the serial store alone: the page does not load the global store
Init ==
  /\ EnvInit
  /\ SerialInit
  /\ GlobalInit
  /\ FormInit
  /\ gdisk = NoRecord

\* the global store alone: no collaborator touches the serial store
InitGlobal == EnvInit /\ SerialInit /\ GlobalInit /\ FormInit

Next ==
  \/ AddSerials
  \/ UpdateSerial
  \/ UpdateSerialStatus
  \/ HandleSerialSelection
  \/ OpenSuccess
  \/ OpenError
  \/ IdbGetSuccess
  \/ IdbPutSuccess
  \/ IdbPutSuccessObserverRaises
  \/ IdbPutError
  \/ Mount
  \/ Unmount
  \/ Subscribe
  \/ Unsubscribe

\* the serial store with the hooks as its only observers
NextHooks ==
  \/ AddSerials
  \/ UpdateSerial
  \/ UpdateSerialStatus
  \/ HandleSerialSelection
  \/ OpenSuccess
  \/ OpenError
  \/ IdbGetSuccess
  \/ IdbPutSuccess
  \/ IdbPutError
  \/ Mount
  \/ Unmount

\* the serial store with its hooks, and collaborators that also query it
NextQueries ==
  \/ NextHooks
  \/ Query

\* the serial store under the add form's bulk generation
NextBulk ==
  \/ AddSerialsForm
  \/ OpenSuccess
  \/ OpenError
  \/ IdbGetSuccess
  \/ IdbPutSuccess
  \/ IdbPutError

NextGlobal ==
  \/ GlobalAddSerials
  \/ GlobalUpdateSerial
  \/ GlobalDeleteSerial
  \/ GlobalUpdateSerialStatus
  \/ GlobalAddASN
  \/ GlobalUpdateASN
  \/ GlobalDeleteASN
  \/ GlobalAddProduct
  \/ GlobalUpdateProduct
  \/ GlobalDeleteProduct
  \/ GlobalSetActiveTab
  \/ GlobalSetSelectedSerial
  \/ GlobalSetSelectedASN
  \/ GlobalSetSelectedProduct
  \/ GlobalSetSearchTerm
  \/ GlobalSetFilter
  \/ GlobalToggleModal
  \/ GlobalSetLoading
  \/ GlobalAddError
  \/ GlobalClearErrors
  \/ SaveState
  \/ GlobalOpenSuccess
  \/ GlobalOpenError
  \/ GlobalLoadSuccess
  \/ GlobalLoadError
  \/ GlobalPutSuccess
  \/ GlobalPutError
  \/ GlobalMount
  \/ GlobalUnmount

\* the global store with an observer whose callback may raise, under one
\* action method of each kind
NextGlobalObservers ==
  \/ GlobalAddSerials
  \/ GlobalUpdateSerialStatus
  \/ GlobalSetActiveTab
  \/ SaveState
  \/ GlobalOpenSuccess
  \/ GlobalOpenError
  \/ GlobalLoadSuccess
  \/ GlobalLoadError
  \/ GlobalPutSuccess
  \/ GlobalPutError
  \/ GlobalMount
  \/ GlobalUnmount
  \/ GlobalSubscribe
  \/ GlobalSubscribeRaises
  \/ GlobalUnsubscribe
  \/ GlobalUnsubscribeAgain

\* the global store under the action methods on serials alone
NextGlobalSerials ==
  \/ GlobalAddSerials
  \/ GlobalUpdateSerial
  \/ GlobalDeleteSerial
  \/ GlobalUpdateSerialStatus
  \/ SaveState
  \/ GlobalOpenSuccess
  \/ GlobalOpenError
  \/ GlobalLoadSuccess
  \/ GlobalLoadError
  \/ GlobalPutSuccess
  \/ GlobalPutError
  \/ GlobalMount
  \/ GlobalUnmount

\* the global store under the action methods on serials, with collaborators
\* that modify in place what the manager handed them
NextGlobalOwnership ==
  \/ NextGlobalSerials
  \/ GlobalModifyInPlace

\* the global store with the observers that come and go
NextGlobalUnsubscribe ==
  \/ GlobalAddSerials
  \/ GlobalSetActiveTab
  \/ SaveState
  \/ GlobalOpenSuccess
  \/ GlobalOpenError
  \/ GlobalLoadSuccess
  \/ GlobalPutSuccess
  \/ GlobalMount
  \/ GlobalUnmount
  \/ GlobalSubscribe
  \/ GlobalUnsubscribe
  \/ GlobalUnsubscribeAgain

vars == << now, faults, storageAvailable, db, subscribers, disk, idb, opening,
           hook, nOps, issued, outcome, notified, notFoundReads, lastWrite,
           gdb, gsubscribers, state, gdisk, gidb, ginit, gpc, gview, gphase,
           gOps, goutcome, gnotified, gcalls, form >>

\* the serial store with its hooks and collaborators
Spec == Init /\ [][Next]_vars

\* the serial store with its hooks and collaborators, no other observer
SpecHooks == Init /\ [][NextHooks]_vars

\* the same, with every request placed on IndexedDB answered in the end: the
\* open request succeeds or fails, a get succeeds, a put succeeds or fails
SpecHooksFair ==
  /\ SpecHooks
  /\ WF_vars(OpenSuccess \/ OpenError)
  /\ WF_vars(IdbGetSuccess)
  /\ WF_vars(IdbPutSuccess \/ IdbPutError)

\* the serial store with hooks, mutation calls and queries
SpecQueries == Init /\ [][NextQueries]_vars

\* the global store's serials with collaborators that modify in place
SpecGlobalOwnership == InitGlobal /\ [][NextGlobalOwnership]_vars

\* the serial store and the add form's bulk generation
SpecBulk == Init /\ [][NextBulk]_vars

\* the global store with its hooks and collaborators
SpecGlobal == InitGlobal /\ [][NextGlobal]_vars

\* the global store with its hooks and the collaborators that work on serials
SpecGlobalSerials == InitGlobal /\ [][NextGlobalSerials]_vars

\* the global store with hooks and another observer that subscribe and
\* unsubscribe
SpecGlobalUnsubscribe == InitGlobal /\ [][NextGlobalUnsubscribe]_vars

\* the global store with its hooks, its collaborators and another observer
SpecGlobalObservers == InitGlobal /\ [][NextGlobalObservers]_vars

----------------------------------------------------------------------------
(* Invariants of the data: C1, C2 *)

\* C1 (status invariant): in the stored snapshot of the serial store and in
\* the state of the global store, a serial unit has status 'unassigned' if and
\* only if it has no asn_id.
C1_StatusInvariant ==
  /\ disk # NoRecord =>
       \A i \in DOMAIN disk[1].serials :
         (disk[1].serials[i].status = "unassigned")
           <=> (disk[1].serials[i].asn_id = Absent)
  /\ \A i \in DOMAIN state.serials :
       (state.serials[i].status = "unassigned")
         <=> (state.serials[i].asn_id = Absent)

\* C2 (referential integrity): in every state of the global store and every
\* stored snapshot of the serial store, a serial unit that is blocked or
\* assigned has an asn_id, and it is the id of an ASN of the same snapshot.
C2_ReferentialIntegrity ==
  /\ \A i \in DOMAIN state.serials :
       state.serials[i].status \in {"blocked", "assigned"} =>
         /\ state.serials[i].asn_id # Absent
         /\ state.serials[i].asn_id \in IdsOf(state.asns)
  /\ disk # NoRecord =>
       \A i \in DOMAIN disk[1].serials :
         disk[1].serials[i].status \in {"blocked", "assigned"} =>
           /\ disk[1].serials[i].asn_id # Absent
           /\ disk[1].serials[i].asn_id \in IdsOf(disk[1].asns)

----------------------------------------------------------------------------
(* Notifications: C3, C4, C5, C6 *)

\* C3 (notification completeness): an observer subscribed to the global store
\* has received one notification for each mutation call made since it
\* subscribed, and the one replay of its subscription: M + 1 for M calls.
C3_NotificationCompleteness ==
  \A o \in Observers :
    InSeq(gsubscribers, o) => gnotified[o] = gcalls[o] + 1

\* C4 (notification ordering): while observers of the global store hold the
\* state of a mutation call that has not returned yet, the write of that
\* state has been issued.
C4_NotifiedAfterWriteIssued ==
  (gpc = "saveState" /\ \E h \in Hooks : gview[h] = Some(state)) =>
    \E i \in DOMAIN gidb :
      /\ gidb[i].kind = "put"
      /\ gidb[i].caller = gOps
      /\ gidb[i].data = Some(state)

\* C5 (observer fault isolation): a notification pass of the serial store
\* that invokes one registered observer invokes every registered observer,
\* whether or not a callback raises.
C5_FaultIsolation ==
  [][(\E o \in Observers : notified'[o] > notified[o]) =>
       \A o \in Observers :
         InSeq(subscribers, o) => notified'[o] = notified[o] + 1]_vars

\* C6 (an observer's fault does not abort the mutation): no mutation call of
\* the global store ends with the exception an observer raised, short of
\* saveState.
C6_MutationSurvivesObserverFault ==
  \A c \in 1..MaxOps : goutcome[c] # "threw"

----------------------------------------------------------------------------
(* Storage failures and startup: C7, C8, C9, C10 *)

\* C7 (storage write failure): a step in which a write of the global store
\* fails reports the call that issued it as rejected and leaves the state in
\* memory equal to the stored record.
C7_WriteFailureRejects ==
  [][GlobalPutError =>
       /\ goutcome'[Head(gidb).caller] = "rejected"
       /\ gdisk' = Some(state')]_vars

\* C8 (storage unavailable): once indexedDB.open has failed, the global store
\* accepts no mutation: its state stays as it is and no call returns normally.
C8_StorageUnavailableSurfaced ==
  [][ginit = "failed" =>
       /\ state' = state
       /\ \A c \in 1..MaxOps :
            goutcome'[c] = "returned" => goutcome[c] = "returned"]_vars

\* C9 (idempotent seed): at most one read of the serial store finds no record,
\* and every store a hook has read has products.
C9_IdempotentSeed ==
  /\ notFoundReads <= 1
  /\ \A h \in Hooks :
       hook[h].store # Null => hook[h].store[1].products # << >>

\* C10 (startup protocol): when the global store is ready and no write has
\* failed, the record is stored or a write of it is on its way: a first read
\* that found no record has issued the write of the seed data.
C10_SeedPersistedImmediately ==
  (ginit = "ready" /\ faults = 0) =>
    \/ gdisk # NoRecord
    \/ \E i \in DOMAIN gidb : gidb[i].kind = "put"

----------------------------------------------------------------------------
(* Round trip and derivations: C11, C12 *)

\* C11 (round trip, last writer wins): a read of the serial store that a hook
\* completes after writes were stored hands the hook the store given to the
\* latest of these setStore calls, in serials, asns and products, with
\* lastUpdated at or after the time of that call.
C11_RoundTrip ==
  [][\A h \in Hooks :
       (/\ IdbGetSuccess
        /\ Head(idb).op = "loadStore"
        /\ Head(idb).hook = h
        /\ hook[h].phase = "mounted"
        /\ lastWrite # Null) =>
         /\ hook'[h].store # Null
         /\ hook'[h].store[1].serials = lastWrite[1].store.serials
         /\ hook'[h].store[1].asns = lastWrite[1].store.asns
         /\ hook'[h].store[1].products = lastWrite[1].store.products
         /\ hook'[h].store[1].lastUpdated >= lastWrite[1].at]_vars

\* two mutation calls have written one after the other, and a hook has read
\* the store of the second
C11_ReadAfterTwoWrites ==
  /\ outcome[1] = "resolved"
  /\ outcome[2] = "resolved"
  /\ lastWrite # Null
  /\ lastWrite[1].at = 2
  /\ lastWrite[1].store.serials # getDefaultSerials
  /\ \E h \in Hooks :
       /\ hook[h].store # Null
       /\ hook[h].store[1].serials = lastWrite[1].store.serials
       /\ hook[h].store[1].lastUpdated = 2

\* the derivations of one list of serials agree
CountsAgree(serials) ==
  LET counts == getSerialCounts(serials)
  IN /\ counts.total = Len(getSerialsByStatus(serials, "unassigned"))
                       + Len(getSerialsByStatus(serials, "blocked"))
                       + Len(getSerialsByStatus(serials, "assigned"))
     /\ counts.unassigned = Len(getSerialsByStatus(serials, "unassigned"))
     /\ counts.blocked = Len(getSerialsByStatus(serials, "blocked"))
     /\ counts.assigned = Len(getSerialsByStatus(serials, "assigned"))

\* C12 (derivation consistency): in every state of the global store, and in
\* every stored snapshot of the serial store, getSerialCounts().total is the
\* sum of the lengths of the three getSerialsByStatus results, and each count
\* is the length of its getSerialsByStatus result.
C12_DerivationConsistency ==
  /\ CountsAgree(state.serials)
  /\ disk # NoRecord => CountsAgree(disk[1].serials)

\* the global store after an addSerials and a updateSerialStatus to blocked:
\* seven serials, two of them blocked
C12_CountsAfterMutations ==
  /\ getSerialCounts(state.serials).total = 7
  /\ getSerialCounts(state.serials).blocked = 2
  /\ getSerialCounts(state.serials).assigned = 1

----------------------------------------------------------------------------
(* Mutations of the serial store: C13 *)

\* C13 (mutations are serialized): at most one mutation call of the serial
\* store is in flight, that is, issued and not yet settled.
C13_MutationsSerialized ==
  Cardinality({c \in 1..MaxOps : outcome[c] = "pending"}) <= 1

----------------------------------------------------------------------------
(* Frame conditions of the mutations: C14, C15, C16 *)

\* C14 (updateSerial): a call of the global store's updateSerial(unit) puts
\* unit in the place of the serial with its id and leaves the other serials,
\* their order, asns and products as they were; when no serial has that id
\* no observer is notified and setState does not go on to saveState.
C14_UpdateSerialFrame ==
  [][\A unit \in SavedUnits(now + 1) :
       SetState(gUpdateSerial(state, unit)) =>
         /\ state'.asns = state.asns
         /\ state'.products = state.products
         /\ Len(state'.serials) = Len(state.serials)
         /\ \A i \in DOMAIN state.serials :
              state'.serials[i] = IF state.serials[i].id = unit.id
                                  THEN unit ELSE state.serials[i]
         /\ unit.id \notin IdsOf(state.serials) =>
              /\ gnotified' = gnotified
              /\ gpc' = "idle"]_vars

C16_AddSerialsAppends ==
  [][\A units \in BatchesDuring(now) :
       SetState(gAddSerials(state, units)) =>
         /\ state'.serials = state.serials \o units
         /\ Len(state'.serials) = Len(state.serials) + Len(units)
         /\ state'.asns = state.asns
         /\ state'.products = state.products]_vars

\* the same serial numbers were added twice to the seeded state: both copies
\* are in the list
C16_AddedTwice ==
  /\ Len(state.serials) = 9
  /\ state.serials[6].serial_number = state.serials[8].serial_number
  /\ state.serials[7].serial_number = state.serials[9].serial_number
  /\ state.serials[5] = getDefaultSerials[5]

----------------------------------------------------------------------------
(* Observers and queries: C17 *)

\* C17 (unsubscribe): an observer of the global store that has called the
\* function subscribe returned is notified no more; the call takes this
\* observer out of the subscribers and leaves the others, their order and
\* their notifications as they were; a second call changes nothing.
C17_Unsubscribe ==
  [][\A o \in Observers :
       /\ gphase[o] \in Gone => gnotified'[o] = gnotified[o]
       /\ (gphase[o] = "mounted" /\ gphase'[o] = "gone") =>
            /\ ~InSeq(gsubscribers', o)
            /\ gsubscribers' = SelectSeq(gsubscribers, LAMBDA p : p # o)
            /\ \A p \in Observers \ {o} : gnotified'[p] = gnotified[p]
       /\ (gphase[o] = "gone" /\ gphase'[o] = "gone again") =>
            /\ gsubscribers' = gsubscribers
            /\ gnotified' = gnotified
            /\ state' = state
            /\ gidb' = gidb]_vars

\* an observer has unsubscribed twice and a mutation call was made since its
\* first unsubscribe; it was not notified, and a mounted hook was
C17_UnsubscribedThenMutated ==
  \E o \in Plain, h \in Hooks :
    /\ gphase[o] = "gone again"
    /\ gcalls[o] >= 1
    /\ gnotified[o] = 0
    /\ InSeq(gsubscribers, h)
    /\ gcalls[h] >= 1
    /\ gnotified[h] >= 2

\* C18 (queries are free of side effects): the read of a query of the serial
\* store completes without placing a write, without changing the stored
\* record and without a notification.
C18_QueriesSideEffectFree ==
  [][(IdbGetSuccess /\ Head(idb).op = "query") =>
       /\ idb' = Tail(idb)
       /\ disk' = disk
       /\ notified' = notified]_vars

\* C19 (exclusive ownership): a collaborator that modifies in place the value
\* getState() returned, the argument of its callback or the result of a query
\* leaves the manager's state as it was.
C19_ExclusiveOwnership ==
  [][GlobalModifyInPlace => state' = state]_vars

\* C20 (serial ids are unique): no two serial units of the global store's
\* state have the same id.
C20_SerialIdsUnique ==
  \A i, j \in DOMAIN state.serials :
    i # j => state.serials[i].id # state.serials[j].id

----------------------------------------------------------------------------
(* The flows of the views: C21 to C24 *)

\* C21 (assign flow): in every state of the global store, and for every unit
\* the state has, updateSerialStatus(id, status, asnId) with that unit's id
\* leaves a state where getSerialsByASN(asnId) has exactly one unit with the
\* id, that unit has the requested status, and getSerialsByStatus of the
\* unit's previous status has no unit with the id.
C21_AssignFlow ==
  \A i \in DOMAIN state.serials, st \in Statuses, asn \in AsnInputs :
    LET id == state.serials[i].id
        prev == state.serials[i].status
        after == MergeState(state,
                            gUpdateSerialStatus(state, id, st, asn, now + 1),
                            now + 1).serials
        byASN == getSerialsByASN(after, asn)
        byPrev == getSerialsByStatus(after, prev)
    IN /\ Cardinality({k \in DOMAIN byASN : byASN[k].id = id}) = 1
       /\ \A k \in DOMAIN byASN : byASN[k].id = id => byASN[k].status = st
       /\ \A k \in DOMAIN byPrev : byPrev[k].id # id

\* the sequence number n written with at least three digits, the sign first
ZeroPadded(n) ==
  LET m == IF n < 0 THEN 0 - n ELSE n
      digits == IF m < 10 THEN "00" \o ToString(m)
                ELSE IF m < 100 THEN "0" \o ToString(m)
                ELSE ToString(m)
  IN IF n < 0 THEN "-" \o digits ELSE digits

\* C22 (bulk generation): when handleBulkGenerate accepts a prefix and the
\* integers start <= end, the units it passes to addSerials are end - start + 1
\* in number, follow the sequence numbers in increasing order, have the
\* prefix followed by the zero-padded sequence number as serial number, all
\* different, and are 'unassigned' without asn_id.
C22_BulkGeneration ==
  [][\A typed \in BulkInputs :
       (BulkGenerate(typed[1], typed[2], typed[3]) /\ form'.loading) =>
         LET start == parseInt(typed[2])[1]
             end == parseInt(typed[3])[1]
             units == issued'[nOps'].units
         IN /\ Len(units) = end - start + 1
            /\ \A k \in DOMAIN units :
                 /\ units[k].serial_number =
                      Join(typed[1]) \o ZeroPadded(start + k - 1)
                 /\ units[k].status = "unassigned"
                 /\ units[k].asn_id = Absent
            /\ \A k, l \in DOMAIN units :
                 k # l => units[k].serial_number # units[l].serial_number]_vars

\* C23 (range rejection): a press of "Generate" with an empty or blank
\* prefix, with a bound that is no number, with start > end or with
\* end - start > 1000 calls no addSerials and leaves the serial store, its
\* requests and its record as they were; the form is not loading.
C23_RangeRejection ==
  [][\A typed \in BulkInputs :
       LET start == parseInt(typed[2])
           end == parseInt(typed[3])
           rejected == \/ trim(typed[1]) = << >>
                       \/ start = NaN
                       \/ end = NaN
                       \/ start[1] > end[1]
                       \/ end[1] - start[1] > MaxRange
       IN (BulkGenerate(typed[1], typed[2], typed[3]) /\ rejected) =>
            /\ nOps' = nOps
            /\ issued' = issued
            /\ idb' = idb
            /\ opening' = opening
            /\ disk' = disk
            /\ ~form'.loading]_vars

\* the range 1..1002 was rejected after an accepted generation had filled the
\* store: the record still ends with the units of that generation
C23_TooLargeRejected ==
  /\ form.toast = "Range too large"
  /\ form.endNumber = << "1", "0", "0", "2" >>
  /\ ~form.loading
  /\ nOps = 1
  /\ disk # NoRecord
  /\ Len(disk[1].serials) = 8
  /\ idb = << >>

\* C24 (bulk generation cap): no write to the serial store's record makes its
\* list of serials longer by more than 1000 units.
C24_BulkCap ==
  [][(disk # NoRecord /\ disk' # NoRecord) =>
       Len(disk'[1].serials) <= Len(disk[1].serials) + MaxRange]_vars

----------------------------------------------------------------------------
(* Overlapping calls and initialisation: C25 to C27 *)

\* C25 (no lost update in the serial store): when the write of a mutation
\* call is stored, the record keeps every serial it had, and those the call
\* does not target are as they were stored, so what an earlier call wrote to
\* another serial is still there.
C25_NoLostUpdate ==
  [][(IdbPutSuccess /\ Head(idb).op = "mutation" /\ disk # NoRecord) =>
       LET op == issued[Head(idb).caller]
           targets == CASE op.type = "updateSerial" -> {op.unit.id}
                        [] op.type = "updateSerialStatus" -> {op.serialId}
                        [] OTHER -> {}
           old == disk[1].serials
           new == disk'[1].serials
       IN /\ Len(new) >= Len(old)
          /\ \A i \in DOMAIN old : old[i].id \notin targets => new[i] = old[i]]_vars

\* C26 (the seed never overwrites user data): once a mutation call has
\* completed, a write of the default data that getStore started leaves the
\* serials, asns and products of the stored record as they are.
C26_SeedKeepsUserData ==
  [][(/\ IdbPutSuccess
      /\ Head(idb).op = "seed"
      /\ disk # NoRecord
      /\ \E c \in 1..MaxOps : outcome[c] = "resolved") =>
       /\ disk'[1].serials = disk[1].serials
       /\ disk'[1].asns = disk[1].asns
       /\ disk'[1].products = disk[1].products]_vars

\* C27 (global store mutations before initialisation are not lost): when
\* loadState completes, every serial the state held through an earlier
\* addSerials is still in the state.
C27_EarlyMutationsKept ==
  [][(ginit = "loading" /\ ginit' # "loading") =>
       \A i \in DOMAIN state.serials :
         \E j \in DOMAIN state'.serials :
           state'.serials[j].id = state.serials[i].id]_vars

----------------------------------------------------------------------------
(* The two stores side by side: C28 *)

\* C28 (the two designs are equivalent on serials): from every list of
\* serials the calls can produce, each of addSerials, updateSerial and
\* updateSerialStatus gives the same list in the serial store (on the store
\* getStore returned) and in the global store (through setState).
C28_StoresAgree ==
  LET store == Store(state.serials, state.asns, state.products, now)
      global(updates) == MergeState(state, updates, now + 1).serials
  IN /\ \A units \in BatchesDuring(now) :
          addSerials(store, units).serials = global(gAddSerials(state, units))
     /\ \A i \in DOMAIN state.serials, st \in Statuses :
          LET unit == [state.serials[i] EXCEPT !.status = st]
          IN updateSerial(store, unit).serials = global(gUpdateSerial(state, unit))
     /\ \A i \in DOMAIN state.serials, st \in Statuses, asn \in AsnInputs :
          LET id == state.serials[i].id
          IN updateSerialStatus(store, id, st, asn, now + 1).serials
             = global(gUpdateSerialStatus(state, id, st, asn, now + 1))

----------------------------------------------------------------------------
(* Notification and reload: C29, C30 *)

\* C29 (the notify-reload cycle quiesces): in the end no getStore is
\* suspended and no request is waiting, and from then on every mounted hook
\* holds the stored record.
C29_Quiesces ==
  <>[](/\ idb = << >>
       /\ opening = << >>
       /\ \A h \in Hooks : hook[h].phase = "mounted" => hook[h].store = disk)

\* whether a store shows the effect of a mutation call
ShowsEffect(store, op) ==
  CASE op.type = "addSerials" ->
         \A k \in DOMAIN op.units :
           \E i \in DOMAIN store.serials : store.serials[i] = op.units[k]
    [] op.type = "updateSerial" ->
         \E i \in DOMAIN store.serials : store.serials[i] = op.unit
    [] op.type = "updateSerialStatus" ->
         \E i \in DOMAIN store.serials :
           /\ store.serials[i].id = op.serialId
           /\ store.serials[i].status = op.status
           /\ store.serials[i].asn_id = op.asnId
    [] OTHER -> TRUE

\* C30 (the re-pull after a notification sees the mutation): when the write
\* of a mutation call is stored and a hook is notified, the hook's getStore
\* is placed behind the requests that are waiting; the record it will read is
\* the one just stored or one a waiting put stores, and each of these shows
\* the effect of the mutation.
C30_RepullSeesMutation ==
  [][(/\ IdbPutSuccess
      /\ Head(idb).op = "mutation"
      /\ \E h \in Hooks : InSeq(subscribers, h)) =>
       /\ ShowsEffect(disk'[1], issued[Head(idb).caller])
       /\ \A i \in DOMAIN idb' :
            idb'[i].kind = "put" =>
              ShowsEffect(idb'[i].data[1], issued[Head(idb).caller])]_vars

============================================================================
